---- MODULE Spec2Model ----
(***************************************************************************)
(* StableClustering (src/imodels/clustering/stableclustering.py): the      *)
(* estimator that selects a cluster count by the agreement of repeated     *)
(* clustering runs.  One estimator object, its constructor parameters, its *)
(* fitted attributes, and the control state of one fit or predict call.    *)
(*                                                                         *)
(* The clustering procedure (KMeans) and the agreement metrics are library *)
(* code: KMeans.fit_predict is a function of (X, n_clusters, random_state) *)
(* whose value is unknown, so it is chosen nondeterministically once per   *)
(* (n_clusters, random_state) of a call and remembered; the metrics are    *)
(* computed from the pair confusion matrix as the library computes them.   *)
(* Scores are exact rationals <<numerator, denominator>>; NaN is <<0, 0>>  *)
(* (the rounding of floating-point sums is not modelled).                  *)
(* The two ValueErrors fit raises itself are told apart by name:           *)
(* "InvalidAlgorithm" (line 39) and "InvalidMetric" (line 51); "ValueError"*)
(* is the one KMeans raises for an n_clusters outside [1, N].              *)
(***************************************************************************)
EXTENDS Integers, Sequences, FiniteSets

\* ------------------------------------------------------------------ bounds
\* Number of rows N of the dataset X handed to fit and to predict.
NRows == 2
\* Longest k_values sequence.
MaxCandidates == 2
\* Largest n_repetitions.
MaxRep == 2

\* Default of the random_state constructor parameter.
DefaultRandomState == 42

\* Candidate cluster counts a caller may list: 0 and NRows + 1 are the two
\* out-of-range neighbours of the valid range 1 .. NRows.
Ks == 0 .. (NRows + 1)

RECURSIVE SeqsUpTo(_, _)
SeqsUpTo(S, n) ==
    IF n = 0 THEN {<<>>}
    ELSE LET shorter == SeqsUpTo(S, n - 1)
         IN  shorter \cup {Append(s, x) : s \in {t \in shorter : Len(t) = n - 1}, x \in S}

KValueChoices == SeqsUpTo(Ks, MaxCandidates)
Algorithms == {"k-means", "nmf"}
Metrics == {"rand", "adjusted_rand", "bogus"}
RandomStates == {DefaultRandomState}

\* An optional value (None, an unbound local, an attribute not yet assigned) is
\* the empty sequence; a present value x is <<x>>.
None == <<>>
Some(x) == <<x>>
Val(o) == o[1]

\* What a call hands back: None, self, or a label sequence.
NoValue == [kind |-> "None", labels |-> <<>>]

\* ------------------------------------------------------------ rationals
NaN == <<0, 0>>
IsNaN(p) == p[2] = 0

Abs(n) == IF n < 0 THEN -n ELSE n

RECURSIVE GCD(_, _)
GCD(a, b) == IF b = 0 THEN a ELSE GCD(b, a % b)

\* n/d in lowest terms, d > 0.
Rat(n, d) ==
    LET g == GCD(Abs(n), Abs(d))
        s == IF d < 0 THEN -1 ELSE 1
    IN  <<(s * n) \div g, (s * d) \div g>>

RatAdd(p, q) == Rat(p[1] * q[2] + q[1] * p[2], p[2] * q[2])

\* Python's float comparison a > b: false when either side is NaN.
RatGT(p, q) == ~IsNaN(p) /\ ~IsNaN(q) /\ p[1] * q[2] > q[1] * p[2]
\* a >= b, likewise.
RatGE(p, q) == ~IsNaN(p) /\ ~IsNaN(q) /\ p[1] * q[2] >= q[1] * p[2]

\* ------------------------------------------------------- library: metrics
\* sklearn.metrics.pair_confusion_matrix over the ordered pairs of rows.
RowPairs(a) == {p \in (DOMAIN a) \X (DOMAIN a) : p[1] # p[2]}
PairTP(a, b) == Cardinality({p \in RowPairs(a) : a[p[1]] = a[p[2]] /\ b[p[1]] = b[p[2]]})
PairTN(a, b) == Cardinality({p \in RowPairs(a) : a[p[1]] # a[p[2]] /\ b[p[1]] # b[p[2]]})
PairFN(a, b) == Cardinality({p \in RowPairs(a) : a[p[1]] = a[p[2]] /\ b[p[1]] # b[p[2]]})
PairFP(a, b) == Cardinality({p \in RowPairs(a) : a[p[1]] # a[p[2]] /\ b[p[1]] = b[p[2]]})

rand_score(a, b) ==
    LET numerator == PairTN(a, b) + PairTP(a, b)
        denominator == Cardinality(RowPairs(a))
    IN  IF numerator = denominator \/ denominator = 0
        THEN <<1, 1>>
        ELSE Rat(numerator, denominator)

adjusted_rand_score(a, b) ==
    LET tp == PairTP(a, b)
        tn == PairTN(a, b)
        fn == PairFN(a, b)
        fp == PairFP(a, b)
    IN  IF fn = 0 /\ fp = 0
        THEN <<1, 1>>
        ELSE Rat(2 * (tp * tn - fn * fp),
                 (tp + fn) * (fn + tn) + (tp + fp) * (fp + tn))

\* ------------------------------------------------------ library: KMeans
\* KMeans(n_clusters = k, random_state = s), not yet fitted.
KMeans(k, s) == [n_clusters |-> k, random_state |-> s, n_fit |-> 0]

\* KMeans.fit validates n_clusters against the data before clustering.
ValidK(k) == 1 <= k /\ k <= NRows

\* Every label sequence for n rows: one label in [0, k) per row.
AllLabelings(k, n) == [1 .. n -> 0 .. (k - 1)]

\* The largest label among the first i rows of l (-1 for none).
RECURSIVE MaxLabel(_, _)
MaxLabel(l, i) ==
    IF i = 0 THEN -1
    ELSE LET m == MaxLabel(l, i - 1) IN IF l[i] > m THEN l[i] ELSE m

\* A Partition of the n rows into at most k groups.  Label identity is
\* arbitrary and both metrics read labels only through equality, so each
\* grouping stands once, numbered in order of first appearance.
Labelings(k, n) ==
    {l \in AllLabelings(k, n) : \A i \in 1 .. n : l[i] <= MaxLabel(l, i - 1) + 1}

\* The partitions of the NRows rows of X, and those into at most k groups.
AllPartitions == Labelings(NRows, NRows)
Partitions(k) == {l \in AllPartitions : \A i \in DOMAIN l : l[i] < k}

\* The score of every two partitions of X under each metric: <<m, a, b, score>>,
\* computed once.
ScoreTable ==
    {<<m, a, b, IF m = "rand" THEN rand_score(a, b) ELSE adjusted_rand_score(a, b)>> :
        m \in {"rand", "adjusted_rand"}, a \in AllPartitions, b \in AllPartitions}

ScoreValues == {t[4] : t \in ScoreTable}

\* rand_score(clusters[i], clusters[j]) or adjusted_rand_score(clusters[i], clusters[j])
Score(m, a, b) == CHOOSE v \in ScoreValues : <<m, a, b, v>> \in ScoreTable

\* The number of pairs (i, j), i < j, among n repetitions: len(scores).
NumPairs(n) == (n * (n - 1)) \div 2

\* The sum of the scores appended by
\* "for i in range(n): for j in range(i + 1, n)" from the pair (i, j) on.
RECURSIVE SumScores(_, _, _, _)
SumScores(m, cl, i, j) ==
    IF i > Len(cl) THEN <<0, 1>>
    ELSE IF j > Len(cl) THEN SumScores(m, cl, i + 1, i + 2)
    ELSE RatAdd(Score(m, cl[i], cl[j]), SumScores(m, cl, i, j + 1))

\* np.mean(scores): NaN for the empty list.
Mean(m, cl) ==
    LET s == SumScores(m, cl, 1, 2)
    IN  IF NumPairs(Len(cl)) = 0 THEN NaN ELSE Rat(s[1], s[2] * NumPairs(Len(cl)))

\* ------------------------------------------------------------- the dict
Keys(d) == [i \in DOMAIN d |-> d[i].k]
KeySet(d) == {d[i].k : i \in DOMAIN d}

\* d[k] = v on an insertion-ordered dict: an existing key keeps its place.
DictSet(d, k, v) ==
    IF k \in KeySet(d)
    THEN [i \in DOMAIN d |-> IF d[i].k = k THEN [k |-> k, v |-> v] ELSE d[i]]
    ELSE Append(d, [k |-> k, v |-> v])

DictGet(d, k) == d[CHOOSE i \in DOMAIN d : d[i].k = k].v

\* ------------------------------------------------------------------ state
VARIABLES
    \* constructor parameters (attributes of the estimator)
    k_values, n_repetitions, algorithm, metric, random_state,
    \* scores_: insertion-ordered dict, a sequence of [k, v] entries
    scores_,
    \* fitted attributes, and which of them the instance has (its __dict__)
    best_k_, best_model_, has,
    \* the call in progress: "none", "fit" or "predict", and its position
    call, pc,
    \* the number of rows of the X handed to the call (0 when none is running)
    x_rows,
    \* how the call ended: the exception raised ("none" if none), the value returned
    raised, ret,
    \* locals of fit; ki counts the candidates whose iteration has finished
    best_k, best_score, best_model, ki, model,
    \* what KMeans.fit_predict returned for (n_clusters, random_state) on this call's X
    memo,
    \* history of the call: clustering runs performed, averages computed,
    \* attributes assigned
    runs, avgs, assigned,
    \* history of the estimator: some fit call has returned normally
    fitted

params == <<k_values, n_repetitions, algorithm, metric, random_state>>
attrs == <<scores_, best_k_, best_model_, has>>
locals == <<best_k, best_score, best_model, ki, model>>
history == <<memo, runs, avgs, assigned>>
vars == <<params, attrs, call, pc, x_rows, raised, ret, locals, history, fitted>>

\* __init__
Init ==
    /\ k_values \in KValueChoices
    /\ n_repetitions \in 0 .. MaxRep
    /\ algorithm \in Algorithms
    /\ metric \in Metrics
    /\ random_state \in RandomStates
    /\ scores_ = <<>>
    /\ best_k_ = None /\ best_model_ = None /\ has = {}
    /\ call = "none" /\ pc = "idle" /\ x_rows = 0 /\ raised = "none" /\ ret = NoValue
    /\ best_k = None /\ best_score = <<-1, 1>> /\ best_model = None
    /\ ki = 0 /\ model = None
    /\ memo = {} /\ runs = <<>> /\ avgs = <<>> /\ assigned = {}
    /\ fitted = FALSE

\* The caller rebinds k_values between calls.
SetKValues ==
    /\ pc = "idle"
    /\ \E kv \in KValueChoices \ {k_values} : k_values' = kv
    /\ UNCHANGED <<n_repetitions, algorithm, metric, random_state, attrs, call, pc,
                   x_rows, raised, ret, locals, history, fitted>>

\* --------------------------------------------------------------------- fit
\* The candidate of the current iteration of "for k in self.k_values".
CurK == k_values[ki + 1]

\* Every repetition seeded alike.
SeedNoOffset(i_rep) == random_state

\* The random_state of repetition i_rep.
Seed(i_rep) == random_state + i_rep

\* avg_score >= best_score
BetterOrEqual(avg_score, best) == RatGE(avg_score, best)

\* avg_score > best_score
Better(avg_score, best) == RatGT(avg_score, best)

\* "best_model = model" outside the comparison.
RetainedLast(better, m, bm) == m

\* "if avg_score > best_score: ... best_model = model"
RetainedModel(better, m, bm) == IF better THEN m ELSE bm

Raise(e) == pc' = "raised" /\ raised' = e

FitBegin ==
    /\ pc = "idle"
    /\ call' = "fit" /\ pc' = "for_k" /\ x_rows' = NRows
    /\ best_k' = None /\ best_score' = <<-1, 1>> /\ best_model' = None
    /\ UNCHANGED <<params, attrs, raised, ret, ki, model, history, fitted>>

\* What the n_repetitions calls model.fit_predict(X) at cluster count k may
\* return: the values already seen for k and these seeds on this X, else any
\* partitions.
FitPredictChoices(k) ==
    IF \E e \in memo : e.k = k
    THEN {[i \in 1 .. n_repetitions |->
             (CHOOSE e \in memo : e.k = k /\ e.s = Seed(i - 1)).labels]}
    ELSE [1 .. n_repetitions -> Partitions(k)]

\* The clustering runs of a repetition loop that ran to its end.
RunsOf(k) == [i \in 1 .. n_repetitions |-> [op |-> "fit_predict", k |-> k, s |-> Seed(i - 1)]]

\* The results worth remembering: those of a k that a later candidate repeats.
Remember(k, clusters) ==
    IF \E j \in (ki + 2) .. Len(k_values) : k_values[j] = k
    THEN {[k |-> k, s |-> Seed(i - 1), labels |-> clusters[i]] : i \in DOMAIN clusters}
    ELSE {}

\* The metric is one of the two the pairwise loop knows.
ValidMetric == metric \in {"rand", "adjusted_rand"}

\* One iteration of "for k in self.k_values" up to np.mean: the exception it
\* ends with, or the mean of the pairwise scores of the partitions collected
\* (with the partitions to remember).
IterationOutcomes(k) ==
    IF n_repetitions = 0
    THEN {[raised |-> "none", avg_score |-> NaN, seen |-> {}]}
    ELSE IF algorithm # "k-means"
    THEN {[raised |-> "InvalidAlgorithm", avg_score |-> NaN, seen |-> {}]}
    ELSE IF ~ValidK(k)
    THEN {[raised |-> "ValueError", avg_score |-> NaN, seen |-> {}]}
    ELSE IF NumPairs(n_repetitions) > 0 /\ ~ValidMetric
    THEN {[raised |-> "InvalidMetric", avg_score |-> NaN, seen |-> Remember(k, clusters)] :
            clusters \in FitPredictChoices(k)}
    ELSE {[raised |-> "none", avg_score |-> Mean(metric, clusters),
           seen |-> Remember(k, clusters)] : clusters \in FitPredictChoices(k)}

\* The exception is raised after the repetition loop has run.
AfterRuns(e) == e \in {"none", "InvalidMetric"} /\ n_repetitions > 0

\* One iteration of "for k in self.k_values": the repetitions, the pairwise
\* scores, their mean, scores_[k] and the running best.
EvaluateCandidate ==
    /\ pc = "for_k"
    /\ ki < Len(k_values)
    /\ \E o \in IterationOutcomes(CurK) :
         /\ model' = IF AfterRuns(o.raised)
                     THEN Some([KMeans(CurK, Seed(n_repetitions - 1)) EXCEPT !.n_fit = 1])
                     ELSE IF o.raised = "ValueError" THEN Some(KMeans(CurK, Seed(0)))
                     ELSE model
         /\ runs' = IF AfterRuns(o.raised) THEN runs \o RunsOf(CurK) ELSE runs
         /\ memo' = memo \cup o.seen
         /\ IF o.raised # "none"
            THEN /\ Raise(o.raised)
                 /\ UNCHANGED <<scores_, best_k, best_score, best_model, ki, avgs>>
            ELSE LET better == Better(o.avg_score, best_score)
                 IN  /\ scores_' = DictSet(scores_, CurK, o.avg_score)
                     /\ best_score' = IF better THEN o.avg_score ELSE best_score
                     /\ best_k' = IF better THEN Some(CurK) ELSE best_k
                     /\ best_model' = RetainedModel(better, model', best_model)
                     /\ avgs' = Append(avgs, o.avg_score)
                     /\ ki' = ki + 1
                     /\ UNCHANGED <<pc, raised>>
    /\ UNCHANGED <<params, best_k_, best_model_, has, call, x_rows, ret, assigned, fitted>>

\* After the loop: self.best_k_ = best_k; self.best_model_ = best_model.fit(X);
\* return self
FitFinish ==
    /\ pc = "for_k"
    /\ ki >= Len(k_values)
    /\ best_k_' = best_k
    /\ IF best_model = None
       THEN /\ Raise("AttributeError")
            /\ has' = has \cup {"best_k_"}
            /\ assigned' = assigned \cup {"best_k_"}
            /\ UNCHANGED <<best_model_, runs, fitted, ret>>
       ELSE /\ best_model_' = Some([Val(best_model) EXCEPT !.n_fit = @ + 1])
            /\ has' = has \cup {"best_k_", "best_model_"}
            /\ assigned' = assigned \cup {"best_k_", "best_model_"}
            /\ runs' = Append(runs, [op |-> "fit", k |-> Val(best_model).n_clusters,
                                     s |-> Val(best_model).random_state])
            /\ fitted' = TRUE
            /\ ret' = [kind |-> "self", labels |-> <<>>]
            /\ pc' = "returned"
            /\ UNCHANGED raised
    /\ UNCHANGED <<params, scores_, call, x_rows, locals, memo, avgs>>

\* ----------------------------------------------------------------- predict
\* hasattr(self, a)
HasAttr(a) ==
    \/ a \in {"k_values", "n_repetitions", "algorithm", "metric", "random_state", "scores_"}
    \/ a \in has

\* sklearn.utils.validation.check_is_fitted(self, attributes) passes
check_is_fitted(attributes) == \A a \in attributes : HasAttr(a)

\* The attributes predict hands to check_is_fitted.
PredictChecks == {"best_model"}

\* predict on n rows: the exception it raises, or the value it returns.
PredictOutcomes(n) ==
    IF ~check_is_fitted(PredictChecks)
    THEN {[raised |-> "NotFittedError", ret |-> NoValue]}
    ELSE IF algorithm = "k-means"
    THEN IF "best_model_" \notin has
         THEN {[raised |-> "AttributeError", ret |-> NoValue]}
         ELSE {[raised |-> "none", ret |-> [kind |-> "labels", labels |-> l]] :
                  l \in AllLabelings(Val(best_model_).n_clusters, n)}
    ELSE {[raised |-> "none", ret |-> NoValue]}

Predict ==
    /\ pc = "idle"
    /\ \E n \in 1 .. NRows : \E o \in PredictOutcomes(n) :
          /\ x_rows' = n
          /\ raised' = o.raised
          /\ ret' = o.ret
          /\ pc' = IF o.raised = "none" THEN "returned" ELSE "raised"
    /\ call' = "predict"
    /\ UNCHANGED <<params, attrs, locals, history, fitted>>

\* The call is over: its locals die.
Return ==
    /\ pc \in {"returned", "raised"}
    /\ pc' = "idle" /\ call' = "none" /\ x_rows' = 0 /\ raised' = "none" /\ ret' = NoValue
    /\ best_k' = None /\ best_score' = <<-1, 1>> /\ best_model' = None
    /\ ki' = 0 /\ model' = None
    /\ memo' = {} /\ runs' = <<>> /\ avgs' = <<>> /\ assigned' = {}
    /\ UNCHANGED <<params, attrs, fitted>>

Next ==
    \/ SetKValues
    \/ FitBegin
    \/ EvaluateCandidate
    \/ FitFinish
    \/ Predict
    \/ Return

Spec == Init /\ [][Next]_vars

\* A specification of fit calls alone, each on the estimator the calls before
\* it left behind.
NextFit ==
    \/ FitBegin
    \/ EvaluateCandidate
    \/ FitFinish
    \/ Return

SpecFit == Init /\ [][NextFit]_vars

\* ----------------------------------------------------------------- claims
FitReturned == call = "fit" /\ pc = "returned"
FitRaised == call = "fit" /\ pc = "raised"
FitEnded == FitReturned \/ FitRaised
PredictEnded == call = "predict" /\ pc \in {"returned", "raised"}

AllValidK == \A i \in DOMAIN k_values : ValidK(k_values[i])
ValidAlgorithm == algorithm = "k-means"

\* scores_[k_values[i]]
ScoreOf(i) == DictGet(scores_, k_values[i])

IsFitPredict(r) == r.op = "fit_predict"
IsRefit(r) == r.op = "fit"

\* C1: after a fit call that completes, scores_ has exactly one entry per
\* element of k_values (repeated elements included), in the order of k_values.
C1_OneEntryPerElement == FitReturned => Keys(scores_) = k_values

\* C2: predict fails with NotFittedError if and only if no fit call has
\* completed before it; after a completed fit it returns one label per row of
\* X, each in [0, best-k).
C2_PredictAfterFit ==
    PredictEnded =>
        /\ (raised = "NotFittedError") <=> ~fitted
        /\ fitted =>
             /\ pc = "returned" /\ ret.kind = "labels"
             /\ Len(ret.labels) = x_rows
             /\ \A i \in DOMAIN ret.labels :
                  0 <= ret.labels[i] /\ ret.labels[i] < Val(best_k_)

\* C3: a fit call with an unsupported algorithm or an unsupported metric (and
\* nothing else wrong: some candidates, all within [1, N], at least two
\* repetitions) raises the corresponding configuration error, and no clustering
\* run has been performed when it is raised.
C3_ConfigErrorBeforeClustering ==
    (/\ FitEnded
     /\ ~ValidAlgorithm \/ ~ValidMetric
     /\ k_values # <<>> /\ AllValidK /\ n_repetitions >= 2)
    => /\ \/ raised = "InvalidAlgorithm" /\ ~ValidAlgorithm
          \/ raised = "InvalidMetric" /\ ~ValidMetric
       /\ runs = <<>>

\* C4: a fit call with n_repetitions = 1 (and nothing else wrong) fails with
\* InvalidConfiguration, and records no score for any candidate.
C4_FewRepetitionsRejected ==
    (/\ FitEnded
     /\ n_repetitions = 1
     /\ ValidAlgorithm /\ ValidMetric /\ k_values # <<>> /\ AllValidK)
    => /\ raised = "InvalidConfiguration"
       /\ avgs = <<>>

\* C5: a fit call whose k_values holds a candidate outside [1, N] (and nothing
\* else wrong) fails with a configuration error before any clustering run,
\* wherever the candidate stands in k_values.  The clustering procedure's own
\* ValueError for n_clusters is accepted as that error.
C5_InvalidCandidateBeforeClustering ==
    (/\ FitEnded
     /\ ~AllValidK
     /\ ValidAlgorithm /\ ValidMetric /\ n_repetitions >= 2)
    => /\ raised \in {"InvalidConfiguration", "ValueError"}
       /\ runs = <<>>

\* C6: a fit call that fails (here with a supported algorithm and metric and at
\* least two repetitions) has assigned neither best_k_ nor best_model_.
C6_FailedFitAssignsNothing ==
    (FitRaised /\ ValidAlgorithm /\ ValidMetric /\ n_repetitions >= 2)
    => assigned \cap {"best_k_", "best_model_"} = {}

\* C7: after a fit call completes on a non-empty k_values with at least two
\* repetitions, best_k_ is a candidate whose average score is maximal over all
\* candidates, and the earliest such candidate in k_values.
C7_BestIsEarliestMaximum ==
    (FitReturned /\ k_values # <<>> /\ n_repetitions >= 2)
    => \E i \in DOMAIN k_values :
         /\ best_k_ = Some(k_values[i])
         /\ \A j \in DOMAIN k_values : RatGE(ScoreOf(i), ScoreOf(j))
         /\ \A j \in 1 .. (i - 1) : RatGT(ScoreOf(i), ScoreOf(j))

\* Two different candidates tie at the maximum and the first is selected.
C7_Witness ==
    /\ FitReturned /\ n_repetitions >= 2 /\ Len(k_values) = 2
    /\ k_values[1] # k_values[2]
    /\ ScoreOf(1) = ScoreOf(2)
    /\ best_k_ = Some(k_values[1])

\* C8: during fit, the clustering runs performed for the candidates evaluated so
\* far are, candidate by candidate in the order of k_values, exactly
\* n_repetitions runs at that candidate's cluster count, the i-th of them
\* (i = 0 .. n_repetitions - 1) with seed random_state + i.
C8_RunsAndSeeds ==
    (call = "fit" /\ pc \in {"for_k", "returned"})
    => LET done == SelectSeq(runs, IsFitPredict)
       IN  /\ Len(done) = ki * n_repetitions
           /\ \A c \in 1 .. ki : \A i \in 0 .. (n_repetitions - 1) :
                LET r == done[(c - 1) * n_repetitions + i + 1]
                IN  r.k = k_values[c] /\ r.s = random_state + i

\* A completed fit of two candidates with at least two repetitions each.
C8_Witness ==
    /\ FitReturned /\ n_repetitions >= 2 /\ Len(k_values) = 2
    /\ ki = 2
    /\ Len(SelectSeq(runs, IsFitPredict)) = 2 * n_repetitions

\* C9: after a fit call completes, best_model_ is a clustering model whose
\* cluster count is best_k_, and it comes from exactly one refit, performed
\* after every clustering run of the candidates.
C9_ModelMatchesBestK ==
    FitReturned
    => /\ "best_model_" \in assigned /\ "best_k_" \in assigned
       /\ best_k_ # None /\ best_model_ # None
       /\ Val(best_model_).n_clusters = Val(best_k_)
       /\ Len(SelectSeq(runs, IsRefit)) = 1
       /\ IsRefit(runs[Len(runs)])
       /\ runs[Len(runs)].k = Val(best_k_)
       /\ ki = Len(k_values)

\* The selected candidate is followed by a different one that did not beat it.
C9_Witness ==
    /\ FitReturned /\ Len(k_values) = 2
    /\ k_values[1] # k_values[2]
    /\ best_k_ = Some(k_values[1])
    /\ Val(best_model_).n_clusters = k_values[1]

\* C10: after a completed fit call, scores_ holds entries only for the
\* candidates of that call.
C10_OnlyLatestCandidates ==
    FitReturned => KeySet(scores_) \subseteq {k_values[i] : i \in DOMAIN k_values}

====
